---------------------------- MODULE Spec2Model ----------------------------
(***************************************************************************)
(* Advent of Code 2024, days 1 to 3: the distance/similarity calculator    *)
(* (01.go, 01.js), the report safety checker (02.go) and the instruction   *)
(* scanner (03.go).  Each program reads its input, then prints Part 1 and  *)
(* Part 2.  Texts are sequences of one-character strings, so that the      *)
(* string functions the programs call work on characters.                  *)
(***************************************************************************)
EXTENDS Integers, Sequences, FiniteSets, TLC

VARIABLES
  pc,       \* position in main()
  part1,    \* the value printed as "Part 1:"
  part2,    \* the value printed as "Part 2:"
  memory,   \* 03.go: the text readPuzzleInput returns
  enabled,  \* 03.go: the enabled argument of the outermost partTwo call
  stack,    \* 03.go: the frames of the partTwo calls in progress
  ret,      \* 03.go: the value the last finished partTwo call returned
  counted,  \* 03.go: offsets in memory of the matches partTwo has summed
  line,     \* 01.go, 02.go: scanner.Text() of the last line scanned
  scanned,  \* 01.go, 02.go: the number of lines scanned
  left,     \* 01.go, 01.js: the left column
  right,    \* 01.go, 01.js: the right column
  log,      \* 01.go: the lines printed while reading
  cols,     \* 01.go, 01.js: the columns as they were before sorting
  reports   \* 02.go: the reports read

vars == <<pc, part1, part2, memory, enabled, stack, ret, counted,
          line, scanned, left, right, log, cols, reports>>

scanVars == <<memory, enabled, stack, ret, counted>>
readVars == <<line, scanned>>
distVars == <<left, right, log, cols>>

-----------------------------------------------------------------------------
(* Bounds of the model. *)

\* fragments a memory text is made of
MaxFrags == 3
\* characters of an input line read on its own
MaxLineLen == 3
\* lines of an input file read line by line
MaxLines == 2
\* rows of a pair of columns
MaxCol == 3
\* levels of a report
MaxReportLen == 4
\* the largest level of a report
MaxLevel == 5

-----------------------------------------------------------------------------
(* Sequences and strings. *)

Min(S) == CHOOSE x \in S : \A y \in S : x <= y

RECURSIVE SeqsUpTo(_, _)
\* all sequences over S of length at most n
SeqsUpTo(S, n) ==
  IF n = 0 THEN {<<>>}
  ELSE LET shorter == SeqsUpTo(S, n - 1)
       IN shorter \cup {Append(s, x) : s \in {t \in shorter : Len(t) = n - 1}, x \in S}

RECURSIVE Concat(_)
\* the concatenation of a sequence of texts
Concat(ss) == IF ss = <<>> THEN <<>> ELSE Head(ss) \o Concat(Tail(ss))

RECURSIVE SumSeq(_)
SumSeq(s) == IF s = <<>> THEN 0 ELSE Head(s) + SumSeq(Tail(s))

Abs(x) == IF x < 0 THEN -x ELSE x

\* Op(v), with v evaluated once, before Op is applied
CallByValue(v, Op(_)) == CHOOSE r \in {Op(x) : x \in {v}} : TRUE

\* Go's s[i:] and s[:i], i counted from 0
SliceFrom(s, i) == SubSeq(s, i + 1, Len(s))
SliceTo(s, i) == SubSeq(s, 1, i)

\* whether pat occurs in s at position p (counted from 1)
HasPrefixAt(s, p, pat) ==
  /\ p + Len(pat) - 1 <= Len(s)
  /\ SubSeq(s, p, p + Len(pat) - 1) = pat

\* strings.Index: the offset (from 0) of the first occurrence of pat, or -1
Index(s, pat) ==
  LET hits == {p \in 1..Len(s) : HasPrefixAt(s, p, pat)}
  IN IF hits = {} THEN -1 ELSE Min(hits) - 1

\* strings.Contains
Contains(s, pat) == Index(s, pat) >= 0

Digits == {"0", "1", "2", "3", "4", "5", "6", "7", "8", "9"}

DigitVal(c) ==
  CASE c = "0" -> 0 [] c = "1" -> 1 [] c = "2" -> 2 [] c = "3" -> 3
    [] c = "4" -> 4 [] c = "5" -> 5 [] c = "6" -> 6 [] c = "7" -> 7
    [] c = "8" -> 8 [] c = "9" -> 9

RECURSIVE DecimalValue(_)
\* the number a sequence of digits writes
DecimalValue(ds) ==
  IF ds = <<>> THEN 0
  ELSE 10 * DecimalValue(SubSeq(ds, 1, Len(ds) - 1)) + DigitVal(ds[Len(ds)])

\* strconv.Atoi: an optional sign, then one or more digits
AtoiOk(s) ==
  LET body == IF s # <<>> /\ s[1] \in {"+", "-"} THEN Tail(s) ELSE s
  IN body # <<>> /\ \A k \in 1..Len(body) : body[k] \in Digits

Atoi(s) ==
  IF s[1] = "-" THEN -DecimalValue(Tail(s))
  ELSE IF s[1] = "+" THEN DecimalValue(Tail(s))
  ELSE DecimalValue(s)

-----------------------------------------------------------------------------
(* 03.go: the instruction scanner. *)

MulOpen == <<"m", "u", "l", "(">>
DontCall == <<"d", "o", "n", "'", "t", "(", ")">>
DontWord == <<"d", "o", "n", "'", "t">>
DoCall == <<"d", "o", "(", ")">>

RECURSIVE DigitsEnd(_, _)
\* the position after the longest run of digits of s that starts at p
DigitsEnd(s, p) ==
  IF p <= Len(s) /\ s[p] \in Digits THEN DigitsEnd(s, p + 1) ELSE p

\* the match of mul\((\d+),(\d+)\) that starts at position p of s, if any
MatchAt(s, p) ==
  LET none == [ok |-> FALSE, start |-> p, next |-> p + 1, x |-> <<>>, y |-> <<>>]
      p1 == p + 4
      e1 == DigitsEnd(s, p1)
      p2 == e1 + 1
      e2 == DigitsEnd(s, p2)
  IN IF ~HasPrefixAt(s, p, MulOpen) THEN none
     ELSE IF ~(e1 > p1 /\ e1 <= Len(s) /\ s[e1] = ",") THEN none
     ELSE IF ~(e2 > p2 /\ e2 <= Len(s) /\ s[e2] = ")") THEN none
     ELSE [ok |-> TRUE, start |-> p, next |-> e2 + 1,
           x |-> SubSeq(s, p1, e1 - 1), y |-> SubSeq(s, p2, e2 - 1)]

\* the leftmost non-overlapping matches of s from position p on: the first
\* match that starts at q or later, then the matches after its end
MatchesFrom(s, p) ==
  LET from[q \in 1..(Len(s) + 1)] ==
        CallByValue({r \in q..Len(s) : MatchAt(s, r).ok},
          LAMBDA starts :
            IF starts = {} THEN <<>>
            ELSE CallByValue(MatchAt(s, Min(starts)),
                   LAMBDA m : <<m>> \o from[m.next]))
  IN from[p]

getMatches(mem) == CallByValue(mem, LAMBDA s : MatchesFrom(s, 1))

RECURSIVE SumProducts(_)
\* the loop of partOne over the matches
SumProducts(matches) ==
  IF matches = <<>> THEN 0
  ELSE LET m == Head(matches)
       IN IF ~AtoiOk(m.x) \/ ~AtoiOk(m.y) THEN SumProducts(Tail(matches))
          ELSE Atoi(m.x) * Atoi(m.y) + SumProducts(Tail(matches))

partOne3(mem) == CallByValue(getMatches(mem), SumProducts)

\* the offsets (from 0) of the matches of mem
MatchOffsets(mem) ==
  CallByValue(getMatches(mem), LAMBDA ms : {ms[k].start - 1 : k \in 1..Len(ms)})

\* partTwo, had its enabled branch passed the whole text on: memory, not
\* memory[i:]
partTwoStepSameText(mem, en) ==
  IF en
  THEN IF Contains(mem, DontCall)
       THEN LET i == Index(mem, DontWord)
            IN [call |-> TRUE, add |-> partOne3(SliceTo(mem, i)),
                summed |-> SliceTo(mem, i), mem |-> mem, en |-> FALSE]
       ELSE [call |-> FALSE, add |-> partOne3(mem), summed |-> mem,
             mem |-> <<>>, en |-> FALSE]
  ELSE IF Contains(mem, DoCall)
       THEN LET i == Index(mem, DoCall)
            IN [call |-> TRUE, add |-> 0, summed |-> <<>>,
                mem |-> SliceFrom(mem, i), en |-> TRUE]
       ELSE [call |-> FALSE, add |-> 0, summed |-> <<>>, mem |-> <<>>, en |-> FALSE]

\* partTwo, had it looked for no marker at all
partTwoStepNoToggle(mem, en) ==
  [call |-> FALSE, add |-> IF en THEN partOne3(mem) ELSE 0,
   summed |-> IF en THEN mem ELSE <<>>, mem |-> <<>>, en |-> FALSE]

\* One call of partTwo up to its return or its recursive call: what it adds
\* (partOne of the text before the split), the text whose matches that sum
\* covers, and the arguments of the recursive call.
partTwoStep(mem, en) ==
  IF en
  THEN IF Contains(mem, DontCall)
       THEN LET i == Index(mem, DontWord)
            IN [call |-> TRUE, add |-> partOne3(SliceTo(mem, i)),
                summed |-> SliceTo(mem, i), mem |-> SliceFrom(mem, i), en |-> FALSE]
       ELSE [call |-> FALSE, add |-> partOne3(mem), summed |-> mem,
             mem |-> <<>>, en |-> FALSE]
  ELSE IF Contains(mem, DoCall)
       THEN LET i == Index(mem, DoCall)
            IN [call |-> TRUE, add |-> 0, summed |-> <<>>,
                mem |-> SliceFrom(mem, i), en |-> TRUE]
       ELSE [call |-> FALSE, add |-> 0, summed |-> <<>>, mem |-> <<>>, en |-> FALSE]

\* the texts the scanner is run on: up to MaxFrags fragments, and the
\* example of the puzzle
Frags ==
  { <<"m", "u", "l", "(", "2", ",", "3", ")">>,
    <<"m", "u", "l", "(", "1", "2", ",", "4", ")">>,
    <<"m", "u", "l", "[", "3", ",", "7", "]">>,
    DontCall, DontWord, DoCall }

ExampleMemory ==
  <<"x", "m", "u", "l", "(", "2", ",", "4", ")", "&", "m", "u", "l", "[",
    "3", ",", "7", "]", "!", "^", "d", "o", "n", "'", "t", "(", ")", "_",
    "m", "u", "l", "(", "5", ",", "5", ")", "+", "m", "u", "l", "(", "3",
    "2", ",", "6", "4", "]", "(", "m", "u", "l", "(", "1", "1", ",", "8",
    ")", "u", "n", "d", "o", "(", ")", "?", "m", "u", "l", "(", "8", ",",
    "5", ")", ")">>

Memories == {Concat(fs) : fs \in SeqsUpTo(Frags, MaxFrags)} \cup {ExampleMemory}

InitScan ==
  /\ pc = "start"
  /\ part1 = 0
  /\ part2 = 0
  /\ memory = <<>>
  /\ enabled = TRUE
  /\ stack = <<>>
  /\ ret = 0
  /\ counted = {}
  /\ line = <<>>
  /\ scanned = 0
  /\ left = <<>>
  /\ right = <<>>
  /\ log = <<>>
  /\ cols = <<>>
  /\ reports = <<>>

\* main: readPuzzleInput returns the text of the file, and Part 1 is partOne
\* of it
ScanPartOne ==
  /\ pc = "start"
  /\ memory' \in Memories
  /\ part1' = partOne3(memory')
  /\ pc' = "part1"
  /\ UNCHANGED <<part2, enabled, stack, ret, counted, readVars, distVars, reports>>

\* partTwo is called on the text; main passes true for enabled
CallPartTwo ==
  /\ pc = "part1"
  /\ enabled' \in BOOLEAN
  /\ stack' = <<[memory |-> memory, enabled |-> enabled', pending |-> 0]>>
  /\ pc' = "run"
  /\ UNCHANGED <<part1, part2, memory, ret, counted, readVars, distVars, reports>>

\* the offset in memory of the text of the innermost call
TopOffset == Len(memory) - Len(stack[Len(stack)].memory)

\* the innermost call
Top == stack[Len(stack)]

\* the offsets in memory of the matches of text, a part of the innermost
\* call's text that starts where that text starts
OffsetsInMemory(text) == {TopOffset + o : o \in MatchOffsets(text)}

\* the innermost call splits its text and calls partTwo on the rest
Recurse ==
  /\ pc = "run"
  /\ \E st \in {partTwoStep(Top.memory, Top.enabled)} :
       /\ st.call
       /\ stack' = Append([stack EXCEPT ![Len(stack)].pending = st.add],
                          [memory |-> st.mem, enabled |-> st.en, pending |-> 0])
       /\ counted' = counted \cup OffsetsInMemory(st.summed)
  /\ UNCHANGED <<pc, part1, part2, memory, enabled, ret, readVars, distVars, reports>>

\* the innermost call returns without calling partTwo again
Return ==
  /\ pc = "run"
  /\ \E st \in {partTwoStep(Top.memory, Top.enabled)} :
       /\ ~st.call
       /\ ret' = st.add
       /\ counted' = counted \cup OffsetsInMemory(st.summed)
  /\ stack' = SubSeq(stack, 1, Len(stack) - 1)
  /\ pc' = "unwind"
  /\ UNCHANGED <<part1, part2, memory, enabled, readVars, distVars, reports>>

\* a call whose recursive call returned adds its partOne value and returns
Unwind ==
  /\ pc = "unwind"
  /\ stack # <<>>
  /\ ret' = stack[Len(stack)].pending + ret
  /\ stack' = SubSeq(stack, 1, Len(stack) - 1)
  /\ UNCHANGED <<pc, part1, part2, memory, enabled, counted, readVars, distVars, reports>>

\* main: Part 2
ScanPartTwo ==
  /\ pc = "unwind"
  /\ stack = <<>>
  /\ part2' = ret
  /\ pc' = "done"
  /\ UNCHANGED <<part1, scanVars, readVars, distVars, reports>>

NextScan == ScanPartOne \/ CallPartTwo \/ Recurse \/ Return \/ Unwind \/ ScanPartTwo

SpecScan == InitScan /\ [][NextScan]_vars

\* a call of partTwo in progress, a single thread of control, keeps running
PartTwoRuns == Recurse \/ Return \/ Unwind \/ ScanPartTwo

SpecScanLive == InitScan /\ [][NextScan]_vars /\ WF_vars(PartTwoRuns)

-----------------------------------------------------------------------------
(* 03.go: what the scanner is to compute. *)

Max(S) == CHOOSE x \in S : \A y \in S : x >= y

\* the offsets (from 0) at which a mul(X,Y) instruction stands in s
MulOffsets(s) == {o \in 0..(Len(s) - 1) : MatchAt(s, o + 1).ok}

\* the product of the instruction at offset o
ProductAt(s, o) ==
  LET m == MatchAt(s, o + 1) IN DecimalValue(m.x) * DecimalValue(m.y)

RECURSIVE SumProductsAt(_, _)
SumProductsAt(s, offs) ==
  IF offs = {} THEN 0
  ELSE LET o == CHOOSE x \in offs : TRUE
       IN ProductAt(s, o) + SumProductsAt(s, offs \ {o})

\* whether the nearest toggle marker before offset o is don't()
DisabledAt(s, o) ==
  LET donts == {q \in 0..(o - 1) : HasPrefixAt(s, q + 1, DontCall)}
      dos == {q \in 0..(o - 1) : HasPrefixAt(s, q + 1, DoCall)}
  IN donts # {} /\ (dos = {} \/ Max(donts) > Max(dos))

RECURSIVE ToggleScanFrom(_, _, _)
\* one scan from position p on: don't() disables, do() enables, and an
\* instruction counts while enabled
ToggleScanFrom(s, p, en) ==
  LET marks == {q \in p..Len(s) : \/ HasPrefixAt(s, q, DontCall)
                                  \/ HasPrefixAt(s, q, DoCall)
                                  \/ MatchAt(s, q).ok}
  IN IF marks = {} THEN 0
     ELSE LET q == Min(marks)
              m == MatchAt(s, q)
          IN IF HasPrefixAt(s, q, DontCall)
             THEN ToggleScanFrom(s, q + Len(DontCall), FALSE)
             ELSE IF HasPrefixAt(s, q, DoCall)
             THEN ToggleScanFrom(s, q + Len(DoCall), TRUE)
             ELSE (IF en THEN DecimalValue(m.x) * DecimalValue(m.y) ELSE 0)
                  + ToggleScanFrom(s, m.next, en)

ToggleScan(s) == ToggleScanFrom(s, 1, TRUE)

\* C1: partTwo(memory, true) is the sum the single left-to-right toggle scan
\* gives, also when don't occurs without () before the first don't().
C1_PartTwoIsToggleScan ==
  (pc = "done" /\ enabled) => part2 = ToggleScan(memory)

\* C1, the case the claim names: a don't without () stands before the first
\* don't(), with an instruction between them
C1_DontWordFirst ==
  /\ pc = "done"
  /\ enabled
  /\ Contains(memory, DontCall)
  /\ Index(memory, DontWord) < Index(memory, DontCall)
  /\ \E o \in MulOffsets(memory) :
       Index(memory, DontWord) < o /\ o < Index(memory, DontCall)

\* C8: Part 1 is the sum over every mul(X,Y) of the text; Part 2 is the sum
\* over the instructions partTwo counted, none of which follows a don't()
\* more closely than a do(); so Part 2 is at most Part 1.
C8_PartTwoExcludesDisabled ==
  pc = "done" =>
    /\ part1 = SumProductsAt(memory, MulOffsets(memory))
    /\ enabled =>
         /\ counted \subseteq MulOffsets(memory)
         /\ \A o \in counted : ~DisabledAt(memory, o)
         /\ part2 = SumProductsAt(memory, counted)
         /\ part2 <= part1

\* C8: a text with an instruction that is counted and one that is disabled
C8_SomeDisabled ==
  /\ pc = "done"
  /\ enabled
  /\ counted # {}
  /\ \E o \in MulOffsets(memory) : DisabledAt(memory, o)
  /\ part2 < part1

\* C10: a call of partTwo gets a strictly shorter text than the last call
\* with the same enabled value
ShorterThanSameEnabled ==
  \A j \in 1..Len(stack) : \A k \in (j + 1)..Len(stack) :
    (/\ stack[j].enabled = stack[k].enabled
     /\ \A m \in (j + 1)..(k - 1) : stack[m].enabled # stack[j].enabled)
    => Len(stack[k].memory) < Len(stack[j].memory)

\* C10: partTwo terminates, for either initial value of enabled, and between
\* two consecutive calls with the same enabled value the text gets strictly
\* shorter, also when a split index is 0.
C10_PartTwoTerminates ==
  /\ [][ShorterThanSameEnabled']_vars
  /\ (pc = "run") ~> (pc = "done")

\* C10: three nested calls, the first of which split its text at index 0
C10_SplitAtZero ==
  /\ Len(stack) >= 3
  /\ HasPrefixAt(memory, 1, DontCall) \/ HasPrefixAt(memory, 1, DoCall)
  /\ stack[2].memory = stack[1].memory

-----------------------------------------------------------------------------
(* 01.go: the distance/similarity calculator. *)

Whitespace == {" "}

\* strings.Fields: the maximal runs of non-space characters of s
Fields(s) ==
  LET upTo[i \in 0..Len(s)] ==
        IF i = 0 THEN [fs |-> <<>>, cur |-> <<>>]
        ELSE CallByValue(upTo[i - 1],
               LAMBDA prev :
                 IF s[i] \in Whitespace
                 THEN IF prev.cur = <<>> THEN prev
                      ELSE [fs |-> Append(prev.fs, prev.cur), cur |-> <<>>]
                 ELSE [fs |-> prev.fs, cur |-> Append(prev.cur, s[i])])
      last == upTo[Len(s)]
  IN IF last.cur = <<>> THEN last.fs ELSE Append(last.fs, last.cur)

\* the loop body, had it appended to left before it converted the second
\* field
scanPairAppendsEarly(ln, lft, rgt, lg) ==
  LET parts == Fields(ln)
  IN IF Len(parts) >= 2
     THEN IF ~AtoiOk(parts[1])
          THEN [left |-> lft, right |-> rgt,
                log |-> Append(lg, <<"Invalid input:", parts[1]>>)]
          ELSE IF ~AtoiOk(parts[2])
          THEN [left |-> Append(lft, Atoi(parts[1])), right |-> rgt,
                log |-> Append(lg, <<"Invalid input:", parts[2]>>)]
          ELSE [left |-> Append(lft, Atoi(parts[1])),
                right |-> Append(rgt, Atoi(parts[2])), log |-> lg]
     ELSE [left |-> lft, right |-> rgt, log |-> lg]

\* the body of the scanning loop of readPuzzleInput for one line: the
\* columns and the printed lines after it
scanPair(ln, lft, rgt, lg) ==
  LET parts == Fields(ln)
  IN IF Len(parts) >= 2
     THEN IF ~AtoiOk(parts[1])
          THEN [left |-> lft, right |-> rgt,
                log |-> Append(lg, <<"Invalid input:", parts[1]>>)]
          ELSE IF ~AtoiOk(parts[2])
          THEN [left |-> lft, right |-> rgt,
                log |-> Append(lg, <<"Invalid input:", parts[2]>>)]
          ELSE [left |-> Append(lft, Atoi(parts[1])),
                right |-> Append(rgt, Atoi(parts[2])), log |-> lg]
     ELSE [left |-> lft, right |-> rgt, log |-> lg]

\* the scanning loop over the lines of a file
scanLines(lines) ==
  LET upTo[i \in 0..Len(lines)] ==
        IF i = 0 THEN [left |-> <<>>, right |-> <<>>, log |-> <<>>]
        ELSE CallByValue(upTo[i - 1],
               LAMBDA prev : scanPair(lines[i], prev.left, prev.right, prev.log))
  IN upTo[Len(lines)]

RECURSIVE InsertSorted(_, _)
InsertSorted(s, x) ==
  IF s = <<>> THEN <<x>>
  ELSE IF x < Head(s) THEN <<x>> \o s
  ELSE <<Head(s)>> \o InsertSorted(Tail(s), x)

RECURSIVE SortInts(_)
\* sort.Ints: s in increasing order
SortInts(s) ==
  IF s = <<>> THEN <<>>
  ELSE InsertSorted(SortInts(SubSeq(s, 1, Len(s) - 1)), s[Len(s)])

\* the end of readPuzzleInput, had it sorted the left column only
sortColumnsLeftOnly(lft, rgt, lg) ==
  [left |-> SortInts(lft), right |-> rgt,
   log |-> IF Len(lft) # Len(rgt) THEN Append(lg, <<"Mismatched lengths">>) ELSE lg]

\* the end of readPuzzleInput: both columns sorted, and a line printed when
\* their lengths differ
sortColumns(lft, rgt, lg) ==
  [left |-> SortInts(lft), right |-> SortInts(rgt),
   log |-> IF Len(lft) # Len(rgt) THEN Append(lg, <<"Mismatched lengths">>) ELSE lg]

\* partOne of 01.go
partOne1(lft, rgt) ==
  LET upTo[i \in 0..Len(lft)] ==
        IF i = 0 THEN 0 ELSE upTo[i - 1] + Abs(lft[i] - rgt[i])
  IN upTo[Len(lft)]

\* the frequency map partTwo builds from the right column
FreqMap(rgt) ==
  LET upTo[i \in 0..Len(rgt)] ==
        IF i = 0 THEN <<>>
        ELSE CallByValue(upTo[i - 1],
               LAMBDA freq :
                 IF rgt[i] \in DOMAIN freq
                 THEN [freq EXCEPT ![rgt[i]] = @ + 1]
                 ELSE [v \in DOMAIN freq \cup {rgt[i]} |->
                         IF v = rgt[i] THEN 1 ELSE freq[v]])
  IN upTo[Len(rgt)]

\* freq[l] of a Go map: 0 for a key that is not in the map
MapGet(freq, l) == IF l \in DOMAIN freq THEN freq[l] ELSE 0

\* partTwo, had it built the frequency map from the left column
partTwo1CountsLeft(lft, rgt) ==
  LET freq == FreqMap(lft)
      upTo[i \in 0..Len(lft)] ==
        IF i = 0 THEN 0 ELSE upTo[i - 1] + lft[i] * MapGet(freq, lft[i])
  IN upTo[Len(lft)]

\* partTwo of 01.go
partTwo1(lft, rgt) ==
  LET freq == FreqMap(rgt)
      upTo[i \in 0..Len(lft)] ==
        IF i = 0 THEN 0 ELSE upTo[i - 1] + lft[i] * MapGet(freq, lft[i])
  IN upTo[Len(lft)]

\* the characters an input line is made of, and the lines read one by one
LineChars == {" ", "1", "-"}

Lines == SeqsUpTo(LineChars, MaxLineLen)

\* the numbers the rows of an input file hold
Values == {-1, 2, 3}

ExampleLeft == <<3, 4, 2, 1, 3, 3>>
ExampleRight == <<4, 3, 5, 3, 9, 3>>

Columns ==
  {[left |-> l, right |-> r] :
     l \in SeqsUpTo(Values, MaxCol),
     r \in SeqsUpTo(Values, MaxCol)}

ColumnPairs ==
  {c \in Columns : Len(c.left) = Len(c.right)}
    \cup {[left |-> ExampleLeft, right |-> ExampleRight]}

DigitChar(d) ==
  CASE d = 0 -> "0" [] d = 1 -> "1" [] d = 2 -> "2" [] d = 3 -> "3"
    [] d = 4 -> "4" [] d = 5 -> "5" [] d = 6 -> "6" [] d = 7 -> "7"
    [] d = 8 -> "8" [] d = 9 -> "9"

RECURSIVE DecimalDigits(_)
DecimalDigits(n) ==
  IF n < 10 THEN <<DigitChar(n)>>
  ELSE Append(DecimalDigits(n \div 10), DigitChar(n % 10))

\* the text that writes the integer n
Decimal(n) == IF n < 0 THEN <<"-">> \o DecimalDigits(-n) ELSE DecimalDigits(n)

\* the file whose i-th line holds c.left[i] and c.right[i], three spaces
\* between them
FileOf(c) ==
  [i \in 1..Len(c.left) |->
     Decimal(c.left[i]) \o <<" ", " ", " ">> \o Decimal(c.right[i])]

InitDist ==
  /\ pc = "scan"
  /\ part1 = 0
  /\ part2 = 0
  /\ memory = <<>>
  /\ enabled = TRUE
  /\ stack = <<>>
  /\ ret = 0
  /\ counted = {}
  /\ line = <<>>
  /\ scanned = 0
  /\ left = <<>>
  /\ right = <<>>
  /\ log = <<>>
  /\ cols = <<>>
  /\ reports = <<>>

\* readPuzzleInput: one round of the scanning loop
DistReadLine ==
  /\ pc = "scan"
  /\ scanned < MaxLines
  /\ \E ln \in Lines :
       /\ line' = ln
       /\ \E st \in {scanPair(ln, left, right, log)} :
            /\ left' = st.left
            /\ right' = st.right
            /\ log' = st.log
  /\ scanned' = scanned + 1
  /\ UNCHANGED <<pc, part1, part2, scanVars, cols, reports>>

\* readPuzzleInput: the scanning loop over a whole file of rows
DistReadFile ==
  /\ pc = "scan"
  /\ scanned = 0
  /\ \E c \in ColumnPairs :
       /\ cols' = c
       /\ \E st \in {scanLines(FileOf(c))} :
            /\ left' = st.left
            /\ right' = st.right
            /\ log' = st.log
       /\ scanned' = Len(c.left)
       /\ line' = IF Len(c.left) = 0 THEN <<>> ELSE FileOf(c)[Len(c.left)]
  /\ pc' = "eof"
  /\ UNCHANGED <<part1, part2, scanVars, reports>>

\* readPuzzleInput: scanner.Scan() finds no more lines
DistEndOfInput ==
  /\ pc = "scan"
  /\ cols' = [left |-> left, right |-> right]
  /\ pc' = "eof"
  /\ UNCHANGED <<part1, part2, scanVars, readVars, left, right, log, reports>>

\* readPuzzleInput: after the loop
DistSort ==
  /\ pc = "eof"
  /\ \E st \in {sortColumns(left, right, log)} :
       /\ left' = st.left
       /\ right' = st.right
       /\ log' = st.log
  /\ pc' = "read"
  /\ UNCHANGED <<part1, part2, scanVars, readVars, cols, reports>>

\* main: Part 1
DistPartOne ==
  /\ pc = "read"
  /\ part1' = partOne1(left, right)
  /\ pc' = "part1"
  /\ UNCHANGED <<part2, scanVars, readVars, distVars, reports>>

\* main: Part 2
DistPartTwo ==
  /\ pc = "part1"
  /\ part2' = partTwo1(left, right)
  /\ pc' = "done"
  /\ UNCHANGED <<part1, scanVars, readVars, distVars, reports>>

\* the program, its input read line by line
NextDistRead ==
  DistReadLine \/ DistEndOfInput \/ DistSort \/ DistPartOne \/ DistPartTwo

SpecDistRead == InitDist /\ [][NextDistRead]_vars

\* the program, its scanning loop run over a whole file at once
NextDist == DistReadFile \/ DistSort \/ DistPartOne \/ DistPartTwo

SpecDist == InitDist /\ [][NextDist]_vars

-----------------------------------------------------------------------------
(* 01.go: what the calculator is to compute. *)

Range(s) == {s[i] : i \in 1..Len(s)}

\* the k-th smallest element of s
Ranked(s, k) ==
  Min({v \in Range(s) : Cardinality({j \in 1..Len(s) : s[j] <= v}) >= k})

RECURSIVE SumOfRanks(_, _, _)
\* the sum of the distances between the elements of equal rank, ranks 1..n
SumOfRanks(l, r, n) ==
  IF n = 0 THEN 0
  ELSE Abs(Ranked(l, n) - Ranked(r, n)) + SumOfRanks(l, r, n - 1)

\* the number of occurrences of v in s
Count(s, v) == Cardinality({j \in 1..Len(s) : s[j] = v})

RECURSIVE WeightedSum(_, _, _)
\* the sum of l[i] times the occurrences of l[i] in r, i in 1..n
WeightedSum(l, r, n) ==
  IF n = 0 THEN 0
  ELSE l[n] * Count(r, l[n]) + WeightedSum(l, r, n - 1)

\* the permutations of 1..n, and s permuted
Perms(n) == {f \in [1..n -> 1..n] : \A i, j \in 1..n : f[i] = f[j] => i = j}
Permuted(s, f) == [i \in 1..Len(s) |-> s[f[i]]]

IsExample == cols.left = ExampleLeft /\ cols.right = ExampleRight

\* C4: Part 1 is the sum of |L[i] - R[i]| over the columns of the file, each
\* in increasing order; it is 11 for the example.
C4_PartOneIsSortedDistance ==
  pc \in {"part1", "done"} =>
    /\ part1 = SumOfRanks(cols.left, cols.right, Len(cols.left))
    /\ IsExample => part1 = 11

\* C4: Part 1 printed for columns that were not in increasing order
C4_UnsortedSolved ==
  /\ pc = "part1"
  /\ IsExample
  /\ left # cols.left
  /\ right # cols.right
  /\ part1 = 11

\* C5: partTwo is the sum of left[i] times the occurrences of left[i] in
\* right, the same for every order of left and every order of right; it is
\* 31 for the example.
C5_PartTwoIsWeightedSum ==
  pc = "done" =>
    /\ part2 = WeightedSum(cols.left, cols.right, Len(cols.left))
    /\ \A f \in Perms(Len(cols.left)) :
         /\ partTwo1(Permuted(cols.left, f), cols.right) = part2
         /\ partTwo1(cols.left, Permuted(cols.right, f)) = part2
    /\ IsExample => part2 = 31

\* C5: Part 2 printed for the example, a value of left missing from right
C5_ExampleSolved ==
  /\ pc = "done"
  /\ IsExample
  /\ \E i \in 1..Len(cols.left) : Count(cols.right, cols.left[i]) = 0
  /\ part2 = 31

\* a line that does not hold two integer fields first
Malformed(ln) ==
  \/ Len(Fields(ln)) < 2
  \/ ~AtoiOk(Fields(ln)[1])
  \/ ~AtoiOk(Fields(ln)[2])

\* the warning printed for a line with two fields or more, not both integers
Warning(ln) ==
  <<"Invalid input:",
    IF ~AtoiOk(Fields(ln)[1]) THEN Fields(ln)[1] ELSE Fields(ln)[2]>>

\* C7 as claimed: every malformed line is skipped with a logged warning and
\* is not fatal, and appends nothing to left or right.
C7_MalformedLogged ==
  [][(scanned' = scanned + 1 /\ Malformed(line')) =>
       /\ left' = left
       /\ right' = right
       /\ Len(log') = Len(log) + 1
       /\ pc' = "scan"]_vars

\* C7: every malformed line is skipped, is not fatal and appends nothing to
\* left or right; a warning is printed when the line has two fields or more,
\* and nothing is printed for a line with fewer than two fields.
C7_MalformedSkipped ==
  [][(scanned' = scanned + 1 /\ Malformed(line')) =>
       /\ left' = left
       /\ right' = right
       /\ log' = IF Len(Fields(line')) < 2 THEN log ELSE Append(log, Warning(line'))
       /\ pc' = "scan"]_vars

\* C7: after a well-formed line, a line whose first field is an integer and
\* whose second field is not
C7_SecondFieldBad ==
  /\ pc = "scan"
  /\ scanned = 2
  /\ Len(Fields(line)) >= 2
  /\ AtoiOk(Fields(line)[1])
  /\ ~AtoiOk(Fields(line)[2])
  /\ Len(left) = 1
  /\ Len(right) = 1
  /\ log = <<Warning(line)>>

-----------------------------------------------------------------------------
(* 02.go: the report safety checker. *)

\* the body of the scanning loop of readPuzzleInput for one line: the report
\* of the line, or a panic at a field that is no integer
scanReport(ln) ==
  LET fields == Fields(ln)
  IN [panic |-> \E k \in 1..Len(fields) : ~AtoiOk(fields[k]),
      report |-> [k \in 1..Len(fields) |->
                    IF AtoiOk(fields[k]) THEN Atoi(fields[k]) ELSE 0]]

\* the scanning loop over the lines of a file, none of which panics
scanReports(lines) == [i \in 1..Len(lines) |-> scanReport(lines[i]).report]

\* isSafe, had it refused a difference of -3: diff <= -3, not diff < -3
isSafeDecreasingOpen(report) ==
  LET upTo[i \in 1..(Len(report) + 1)] ==
        IF i = 1 THEN [increasing |-> TRUE, decreasing |-> TRUE]
        ELSE CallByValue(upTo[i - 1],
               LAMBDA f :
                 CallByValue(report[i] - report[i - 1],
                   LAMBDA diff :
                     [increasing |-> f.increasing /\ ~(diff < 1 \/ diff > 3),
                      decreasing |-> f.decreasing /\ ~(diff <= -3 \/ diff > -1)]))
      flags == upTo[IF Len(report) = 0 THEN 1 ELSE Len(report)]
  IN flags.increasing \/ flags.decreasing

\* isSafe: the two flags after the loop over the differences
isSafe(report) ==
  LET upTo[i \in 1..(Len(report) + 1)] ==
        IF i = 1 THEN [increasing |-> TRUE, decreasing |-> TRUE]
        ELSE CallByValue(upTo[i - 1],
               LAMBDA f :
                 CallByValue(report[i] - report[i - 1],
                   LAMBDA diff :
                     [increasing |-> f.increasing /\ ~(diff < 1 \/ diff > 3),
                      decreasing |-> f.decreasing /\ ~(diff < -3 \/ diff > -1)]))
      flags == upTo[IF Len(report) = 0 THEN 1 ELSE Len(report)]
  IN flags.increasing \/ flags.decreasing

\* the report without its element at index i (from 0)
WithoutIndex(report, i) == SubSeq(report, 1, i) \o SubSeq(report, i + 2, Len(report))

\* canBeSafe: the loop over the indices, from index i on
canBeSafe(report) ==
  LET from[i \in 0..Len(report)] ==
        IF i >= Len(report) THEN FALSE
        ELSE IF isSafe(WithoutIndex(report, i)) THEN TRUE
        ELSE from[i + 1]
  IN from[0]

\* partOne of 02.go
partOne2(reps) ==
  LET upTo[i \in 0..Len(reps)] ==
        IF i = 0 THEN 0
        ELSE upTo[i - 1] + (IF isSafe(reps[i]) THEN 1 ELSE 0)
  IN upTo[Len(reps)]

\* partTwo of 02.go
partTwo2(reps) ==
  LET upTo[i \in 0..Len(reps)] ==
        IF i = 0 THEN 0
        ELSE upTo[i - 1] + (IF canBeSafe(reps[i]) THEN 1 ELSE 0)
  IN upTo[Len(reps)]

\* the characters a line of reports is made of, and the lines read one by one
ReportChars == {" ", "1", "2", "x"}

ReportLines == SeqsUpTo(ReportChars, MaxLineLen)

\* the reports of the puzzle text
ExampleReports ==
  {<<7, 6, 4, 2, 1>>, <<1, 2, 7, 8, 9>>, <<9, 7, 6, 2, 1>>, <<1, 3, 2, 4, 5>>,
   <<8, 6, 4, 4, 1>>, <<1, 3, 6, 7, 9>>}

\* the reports a one-line file holds
Reports == SeqsUpTo(1..MaxLevel, MaxReportLen) \cup ExampleReports

RECURSIVE JoinFields(_)
\* the numbers of a report written on a line, a space between them
JoinFields(report) ==
  IF report = <<>> THEN <<>>
  ELSE IF Len(report) = 1 THEN Decimal(report[1])
  ELSE Decimal(Head(report)) \o <<" ">> \o JoinFields(Tail(report))

InitReport ==
  /\ pc = "scan"
  /\ part1 = 0
  /\ part2 = 0
  /\ memory = <<>>
  /\ enabled = TRUE
  /\ stack = <<>>
  /\ ret = 0
  /\ counted = {}
  /\ line = <<>>
  /\ scanned = 0
  /\ left = <<>>
  /\ right = <<>>
  /\ log = <<>>
  /\ cols = <<>>
  /\ reports = <<>>

\* readPuzzleInput: one round of the scanning loop
RepReadLine ==
  /\ pc = "scan"
  /\ scanned < MaxLines
  /\ \E ln \in ReportLines :
       /\ line' = ln
       /\ \E st \in {scanReport(ln)} :
            /\ reports' = IF st.panic THEN reports ELSE Append(reports, st.report)
            /\ pc' = IF st.panic THEN "panic" ELSE "scan"
  /\ scanned' = scanned + 1
  /\ UNCHANGED <<part1, part2, scanVars, distVars>>

\* readPuzzleInput: the scanning loop over a file of one line
RepReadFile ==
  /\ pc = "scan"
  /\ scanned = 0
  /\ \E r \in Reports :
       /\ line' = JoinFields(r)
       /\ reports' = scanReports(<<JoinFields(r)>>)
  /\ scanned' = 1
  /\ pc' = "read"
  /\ UNCHANGED <<part1, part2, scanVars, distVars>>

\* readPuzzleInput: scanner.Scan() finds no more lines
RepEndOfInput ==
  /\ pc = "scan"
  /\ pc' = "read"
  /\ UNCHANGED <<part1, part2, scanVars, readVars, distVars, reports>>

\* main: Part 1
RepPartOne ==
  /\ pc = "read"
  /\ part1' = partOne2(reports)
  /\ pc' = "part1"
  /\ UNCHANGED <<part2, scanVars, readVars, distVars, reports>>

\* main: Part 2
RepPartTwo ==
  /\ pc = "part1"
  /\ part2' = partTwo2(reports)
  /\ pc' = "done"
  /\ UNCHANGED <<part1, scanVars, readVars, distVars, reports>>

\* the program, its input read line by line
NextReport == RepReadLine \/ RepEndOfInput \/ RepPartOne \/ RepPartTwo

SpecReport == InitReport /\ [][NextReport]_vars

\* the program on a file of one line
NextSafe == RepReadFile \/ RepPartOne \/ RepPartTwo

SpecSafe == InitReport /\ [][NextSafe]_vars

-----------------------------------------------------------------------------
(* 02.go: what the checker is to compute. *)

\* the differences of consecutive levels
Diffs(report) == {report[i] - report[i - 1] : i \in 2..Len(report)}

\* all differences in [1,3], or all in [-3,-1]
SafeSpec(report) ==
  \/ \A d \in Diffs(report) : 1 <= d /\ d <= 3
  \/ \A d \in Diffs(report) : -3 <= d /\ d <= -1

\* C3: isSafe holds exactly of the reports whose differences all lie in [1,3]
\* or all lie in [-3,-1]; a report of length 0 or 1 is safe, one with a zero
\* difference or with differences of both signs is not.
C3_IsSafeIsMonotoneInRange ==
  pc \in {"part1", "done"} =>
    /\ part1 = Cardinality({k \in 1..Len(reports) : SafeSpec(reports[k])})
    /\ \A k \in 1..Len(reports) :
         /\ Len(reports[k]) <= 1 => part1 = 1
         /\ 0 \in Diffs(reports[k]) => part1 = 0
         /\ (\E d, e \in Diffs(reports[k]) : d < 0 /\ e > 0) => part1 = 0
         /\ reports[k] = <<7, 6, 4, 2, 1>> => part1 = 1
         /\ reports[k] = <<1, 2, 7, 8, 9>> => part1 = 0

\* C3: Part 1 counted a report that decreases by 3
C3_DecreasingByThree ==
  /\ pc = "part1"
  /\ Len(reports) = 1
  /\ -3 \in Diffs(reports[1])
  /\ part1 = 1

\* C2 as claimed: canBeSafe holds exactly of the reports that are safe or
\* become safe with one element removed, the empty report included, so that
\* Part 2 is never less than Part 1.
C2_CanBeSafeIsSafeOrOneRemoved ==
  /\ \A k \in 1..Len(reports) :
       canBeSafe(reports[k]) <=>
         \/ isSafe(reports[k])
         \/ \E i \in 0..(Len(reports[k]) - 1) : isSafe(WithoutIndex(reports[k], i))
  /\ pc = "done" => part2 >= part1

\* C6 as claimed: empty lines are skipped, so every report has a field, and
\* a blank line changes neither count.
C6_BlankLinesSkipped ==
  [][/\ \A k \in 1..Len(reports') : Len(reports'[k]) >= 1
     /\ (scanned' = scanned + 1 /\ Fields(line') = <<>>) =>
          /\ partOne2(reports') = partOne2(reports)
          /\ partTwo2(reports') = partTwo2(reports)]_vars

-----------------------------------------------------------------------------
(* 01.js: the distance/similarity calculator in JavaScript. *)

\* the value of a missing array element
Undefined == <<"undefined">>

\* the UTF-16 code unit of a digit
CharCode(c) == 48 + DigitVal(c)

\* a < b as JavaScript compares two strings of digits: by code units, a
\* proper prefix first
StringLess(a, b) ==
  \E k \in 1..(Len(b)) :
    /\ \A j \in 1..(k - 1) : j <= Len(a) /\ a[j] = b[j]
    /\ k - 1 <= Len(a)
    /\ k > Len(a) \/ CharCode(a[k]) < CharCode(b[k])

RECURSIVE InsertString(_, _)
InsertString(s, x) ==
  IF s = <<>> THEN <<x>>
  ELSE IF StringLess(x, Head(s)) THEN <<x>> \o s
  ELSE <<Head(s)>> \o InsertString(Tail(s), x)

RECURSIVE ArraySort(_)
\* Array.prototype.sort without a comparator: the elements in the order of
\* their strings
ArraySort(s) ==
  IF s = <<>> THEN <<>>
  ELSE InsertString(ArraySort(SubSeq(s, 1, Len(s) - 1)), s[Len(s)])

\* Number(x) of a string of digits
Number(x) == DecimalValue(x)

RECURSIVE Split(_, _)
\* String.prototype.split with a separator that is not empty
Split(s, sep) ==
  IF Index(s, sep) < 0 THEN <<s>>
  ELSE <<SliceTo(s, Index(s, sep))>> \o Split(SliceFrom(s, Index(s, sep) + Len(sep)), sep)

TripleSpace == <<" ", " ", " ">>

\* the loop over the lines of the file: the two columns
jsColumns(lines) ==
  LET upTo[i \in 0..Len(lines)] ==
        IF i = 0 THEN [left |-> <<>>, right |-> <<>>]
        ELSE CallByValue(upTo[i - 1],
               LAMBDA prev :
                 CallByValue(Split(lines[i], TripleSpace),
                   LAMBDA parts :
                     CallByValue(IF Len(parts) >= 2 THEN parts[2] ELSE Undefined,
                       LAMBDA r :
                         IF parts[1] # <<>> /\ r # <<>>
                         THEN [left |-> Append(prev.left, parts[1]),
                               right |-> Append(prev.right, r)]
                         ELSE prev)))
  IN upTo[Len(lines)]

\* partOne of 01.js: the sum, and the two arrays it has sorted in place
partOneJs(lft, rgt) ==
  LET l == ArraySort(lft)
      r == ArraySort(rgt)
      upTo[i \in 0..Len(l)] ==
        IF i = 0 THEN 0 ELSE upTo[i - 1] + Abs(Number(l[i]) - Number(r[i]))
  IN [sum |-> upTo[Len(l)], left |-> l, right |-> r]

\* partTwo of 01.js
partTwoJs(lft, rgt) ==
  LET upTo[i \in 0..Len(lft)] ==
        IF i = 0 THEN 0
        ELSE upTo[i - 1]
             + Number(lft[i]) * Cardinality({j \in 1..Len(rgt) : rgt[j] = lft[i]})
  IN upTo[Len(lft)]

\* the numbers a file for 01.js holds, written in decimal
MaxJsRows == 2
NumberStrings == SeqsUpTo({"1", "2"}, 2) \ {<<>>}

JsColumnPairs ==
  {c \in {[left |-> l, right |-> r] :
            l \in SeqsUpTo(NumberStrings, MaxJsRows),
            r \in SeqsUpTo(NumberStrings, MaxJsRows)} :
     Len(c.left) = Len(c.right)}

\* the lines data.split('\n') gives for the file that holds the rows of c:
\* one line for each row, and the empty string after the last newline
JsFileOf(c) ==
  [i \in 1..(Len(c.left) + 1) |->
     IF i <= Len(c.left) THEN c.left[i] \o TripleSpace \o c.right[i] ELSE <<>>]

\* the file is read and split into the two columns
JsRead ==
  /\ pc = "scan"
  /\ \E c \in JsColumnPairs :
       /\ cols' = c
       /\ \E st \in {jsColumns(JsFileOf(c))} :
            /\ left' = st.left
            /\ right' = st.right
  /\ pc' = "read"
  /\ UNCHANGED <<part1, part2, scanVars, readVars, log, reports>>

\* console.log("Part 1:", partOne(left, right))
JsPartOne ==
  /\ pc = "read"
  /\ \E st \in {partOneJs(left, right)} :
       /\ part1' = st.sum
       /\ left' = st.left
       /\ right' = st.right
  /\ pc' = "part1"
  /\ UNCHANGED <<part2, scanVars, readVars, log, cols, reports>>

\* console.log("Part 2:", partTwo(left, right))
JsPartTwo ==
  /\ pc = "part1"
  /\ part2' = partTwoJs(left, right)
  /\ pc' = "done"
  /\ UNCHANGED <<part1, scanVars, readVars, distVars, reports>>

NextJs == JsRead \/ JsPartOne \/ JsPartTwo

SpecJs == InitDist /\ [][NextJs]_vars

\* the numbers a column of strings writes
Numbers(column) == [i \in 1..Len(column) |-> Number(column[i])]

\* C9 as claimed: partOne of 01.js sorts both columns by numeric value and
\* returns what partOne of 01.go returns for the numerically sorted columns.
C9_JsPartOneIsGoPartOne ==
  pc \in {"part1", "done"} =>
    /\ Numbers(left) = SortInts(Numbers(cols.left))
    /\ Numbers(right) = SortInts(Numbers(cols.right))
    /\ part1 = partOne1(SortInts(Numbers(cols.left)), SortInts(Numbers(cols.right)))

=============================================================================
